---- MODULE Spec2Model ----
(***************************************************************************)
(* WazuhBoard statistics layer: the client-scoped Elasticsearch connector  *)
(* (core/connectors/elasticsearch_connector.py) and the dashboard          *)
(* statistics pipeline (core/stats.py).                                    *)
(*                                                                         *)
(* Python values are modelled as follows.                                  *)
(*  - a str is a sequence of pieces: the piece ":" is the index-scope      *)
(*    delimiter, every other piece is a run of characters without ':';     *)
(*  - an Optional[str] is a record [none, str];                            *)
(*  - a dict is a function whose domain is its set of keys, {} is the      *)
(*    function with the empty domain;                                      *)
(*  - the value decoded by response.json() carries its JSON type in t.     *)
(***************************************************************************)
EXTENDS Integers, Sequences, FiniteSets, TLC

VARIABLES
    pc,             \* position: "idle", "post", "returned", "done", "input", "applied"
    json_error,     \* exception class response.json() raises in the installed requests
    client_name,    \* ElasticsearchConnector.client_name / the pipeline's client_name
    time_range,     \* get_dashboard_statistics' time_range argument
    frag,           \* number of the fragment whose query is running (0: no pipeline)
    url,            \* scoped index the current search posts to
    query,          \* time filter and histogram interval of the current query
    attempt,        \* loop variable of _execute_search_request
    sleeps,         \* durations (ms) handed to time.sleep by the current search
    posts,          \* requests.post calls made by the current search
    outcomes,       \* what the backend did on each attempt of the current search
    ret,            \* how the current search ended
    results,        \* per fragment, how its search ended
    stats,          \* the dict get_dashboard_statistics builds and returns
    net_only,       \* every requests.post of the call so far raised a network error
    input,          \* argument of the operation applied on its own
    output          \* its result

vars == <<pc, json_error, client_name, time_range, frag, url, query, attempt, sleeps,
          posts, outcomes, ret, results, stats, net_only, input, output>>

-----------------------------------------------------------------------------
(* Bounds of the model *)

MaxLen == 3         \* longest index pattern handed to _scope_index
MaxTenantLen == 2   \* longest tenant id handed to _scope_index
MaxBuckets == 3     \* longest bucket list of an aggregation response

-----------------------------------------------------------------------------
(* Python values *)

EmptyDict == [k \in {} |-> 0]

Get(d, k, default) == IF k \in DOMAIN d THEN d[k] ELSE default

NoneVal == [none |-> TRUE, str |-> <<>>]

Str(s) == [none |-> FALSE, str |-> s]

\* truth value of an Optional[str]: None and "" are falsy
Truthy(c) == ~c.none /\ c.str # <<>>

\* ":" in s
HasColon(s) == \E i \in 1..Len(s) : s[i] = ":"

SeqsUpTo(S, n) == UNION {[1..k -> S] : k \in 0..n}

JsonDict(d) == [t |-> "dict", d |-> d]

JsonList == [t |-> "list", d |-> EmptyDict]

-----------------------------------------------------------------------------
(* ElasticsearchConnector *)

max_retries == 2

\* retry_backoff = 1.5 seconds, in milliseconds
retry_backoff == 1500

_scope_index_noguard(cn, index) ==
    IF ~Truthy(cn) THEN index ELSE cn.str \o <<":">> \o index

_scope_index(cn, index) ==
    IF ~Truthy(cn) THEN index
    ELSE IF HasColon(index) THEN index
    ELSE cn.str \o <<":">> \o index

\* What one requests.post call meets.
\*   kind "neterr": requests.post raises a RequestException (refused, timeout, DNS)
\*   kind "http":   a response arrived; decodable says whether its body is JSON
NetErr == [kind |-> "neterr", status_code |-> 0, decodable |-> FALSE, body |-> JsonDict(EmptyDict)]

HttpResponse(code, dec, body) == [kind |-> "http", status_code |-> code, decodable |-> dec, body |-> body]

\* how a search ends: a returned value or an exception leaving search
Returned(v) == [raised |-> FALSE, value |-> v]

Raised == [raised |-> TRUE, value |-> JsonDict(EmptyDict)]

\* the exception, if any, that the try body of one loop iteration raises
TryRaises(resp, jerr) ==
    IF resp.kind = "neterr" THEN "RequestException"
    ELSE IF resp.status_code = 200 /\ ~resp.decodable THEN jerr
    ELSE "none"

Iteration_one_more(att, resp, jerr) ==
    LET exc == TryRaises(resp, jerr) IN
    IF exc = "none"
        THEN IF resp.status_code = 200
                THEN [next |-> "return", sleep |-> 0, end |-> Returned(resp.body)]
                ELSE [next |-> "return", sleep |-> 0, end |-> Returned(JsonDict(EmptyDict))]
    ELSE IF exc = "RequestException"
        THEN IF att <= max_retries
                THEN [next |-> "retry", sleep |-> retry_backoff * (att + 1), end |-> Raised]
                ELSE [next |-> "return", sleep |-> 0, end |-> Returned(JsonDict(EmptyDict))]
    ELSE [next |-> "return", sleep |-> 0, end |-> Raised]

Iteration_reraise(att, resp, jerr) ==
    LET exc == TryRaises(resp, jerr) IN
    IF exc = "none"
        THEN IF resp.status_code = 200
                THEN [next |-> "return", sleep |-> 0, end |-> Returned(resp.body)]
                ELSE [next |-> "return", sleep |-> 0, end |-> Returned(JsonDict(EmptyDict))]
    ELSE IF exc = "RequestException"
        THEN IF att < max_retries
                THEN [next |-> "retry", sleep |-> retry_backoff * (att + 1), end |-> Raised]
                ELSE [next |-> "return", sleep |-> 0, end |-> Raised]
    ELSE [next |-> "return", sleep |-> 0, end |-> Raised]

\* one iteration of the for loop of _execute_search_request, for loop variable
\* att and backend behaviour resp: either the loop goes on after a sleep, or
\* the function ends
Iteration(att, resp, jerr) ==
    LET exc == TryRaises(resp, jerr) IN
    IF exc = "none"
        THEN IF resp.status_code = 200
                THEN [next |-> "return", sleep |-> 0, end |-> Returned(resp.body)]
                ELSE [next |-> "return", sleep |-> 0, end |-> Returned(JsonDict(EmptyDict))]
    ELSE IF exc = "RequestException"
        THEN IF att < max_retries
                THEN [next |-> "retry", sleep |-> retry_backoff * (att + 1), end |-> Raised]
                ELSE [next |-> "return", sleep |-> 0, end |-> Returned(JsonDict(EmptyDict))]
    ELSE [next |-> "return", sleep |-> 0, end |-> Raised]

\* search: lines 102-105; the index the request is posted to
search_index_prefixed(cn, index) ==
    IF Truthy(cn) THEN cn.str \o <<":">> \o index ELSE index

search_index(cn, index) == _scope_index(cn, index)

-----------------------------------------------------------------------------
(* core/stats.py: the fragment reductions.  Each takes r, how the fragment's *)
(* es_connector.search call ended, and gives the dict the fragment returns.  *)

\* result.get("aggregations", {}).get(name, {}).get("buckets", [])
Buckets(result, name) ==
    Get(Get(Get(result.d, "aggregations", EmptyDict), name, EmptyDict), "buckets", <<>>)

\* the search raised, or result.get raises because result is not a dict
NoBuckets(r) == r.raised \/ r.value.t # "dict"

\* bucket[k] raises KeyError for some bucket of bs
MissingKey(bs, k) == \E i \in 1..Len(bs) : k \notin DOMAIN bs[i]

\* int(x) for a JSON key: a number, a decimal string, or another string
IntRaises(k) == k.t = "word"

PyInt(k) == k.v

\* str.lower() on the status values of the model
Lower(s) ==
    CASE s = "Active" -> "active"
      [] s = "ACTIVE" -> "active"
      [] s = "Connected" -> "connected"
      [] s = "Disconnected" -> "disconnected"
      [] OTHER -> s

RECURSIVE SumSeq(_)
SumSeq(s) == IF s = <<>> THEN 0 ELSE Head(s) + SumSeq(Tail(s))

_get_alerts_per_hour(r) ==
    LET bs == Buckets(r.value, "alerts_per_hour") IN
    IF NoBuckets(r) \/ MissingKey(bs, "key_as_string") \/ MissingKey(bs, "doc_count")
        THEN [alerts_per_hour |-> <<>>]
        ELSE [alerts_per_hour |->
                [i \in 1..Len(bs) |->
                    [timestamp |-> bs[i].key_as_string, count |-> bs[i].doc_count]]]

Band_exclusive(level) ==
    IF level > 15 THEN "critical"
    ELSE IF level > 12 THEN "high"
    ELSE IF level > 7 THEN "medium"
    ELSE "low"

\* the band of a level: the if/elif chain of lines 155-162
Band(level) ==
    IF level >= 15 THEN "critical"
    ELSE IF level >= 12 THEN "high"
    ELSE IF level >= 7 THEN "medium"
    ELSE "low"

Bands == {"critical", "high", "medium", "low"}

_get_severity_breakdown(r) ==
    LET bs == Buckets(r.value, "severity_breakdown") IN
    IF \/ NoBuckets(r)
       \/ MissingKey(bs, "key")
       \/ MissingKey(bs, "doc_count")
       \/ \E i \in 1..Len(bs) : IntRaises(bs[i].key)
        THEN [severity_breakdown |-> <<>>, severity_summary |-> EmptyDict]
        ELSE LET severity_data ==
                    [i \in 1..Len(bs) |->
                        [level |-> PyInt(bs[i].key), count |-> bs[i].doc_count]]
                 InBand(b) ==
                    [i \in 1..Len(bs) |->
                        IF Band(severity_data[i].level) = b
                            THEN severity_data[i].count ELSE 0]
             IN  [severity_breakdown |-> severity_data,
                  severity_summary |-> [b \in Bands |-> SumSeq(InBand(b))]]

_get_top_rules(r) ==
    LET bs == Buckets(r.value, "top_rules") IN
    IF NoBuckets(r) \/ MissingKey(bs, "key") \/ MissingKey(bs, "doc_count")
        THEN [top_rules |-> <<>>]
        ELSE [top_rules |->
                [i \in 1..Len(bs) |->
                    [description |-> bs[i].key, count |-> bs[i].doc_count]]]

_get_top_agents(r) ==
    LET bs == Buckets(r.value, "top_agents") IN
    IF NoBuckets(r) \/ MissingKey(bs, "key") \/ MissingKey(bs, "doc_count")
        THEN [top_agents |-> <<>>]
        ELSE [top_agents |->
                [i \in 1..Len(bs) |->
                    [agent_name |-> bs[i].key, count |-> bs[i].doc_count]]]

\* bucket["key"] not in ["", "0.0.0.0"]
Attributable(bucket) == bucket.key \notin {"", "0.0.0.0"}

\* bucket.get("country", {}).get("buckets", [{}])
CountryBuckets(bucket) ==
    Get(Get(bucket, "country", EmptyDict), "buckets", <<EmptyDict>>)

_get_top_source_ips(r) ==
    LET bs == Buckets(r.value, "top_source_ips") IN
    IF NoBuckets(r) \/ MissingKey(bs, "key")
        THEN [top_source_ips |-> <<>>]
        ELSE LET kept == SelectSeq(bs, Attributable) IN
             IF \/ MissingKey(kept, "doc_count")
                \/ \E i \in 1..Len(kept) : CountryBuckets(kept[i]) = <<>>
                THEN [top_source_ips |-> <<>>]
                ELSE [top_source_ips |->
                        [i \in 1..Len(kept) |->
                            [ip |-> kept[i].key,
                             count |-> kept[i].doc_count,
                             country |-> Get(CountryBuckets(kept[i])[1], "key", "Unknown")]]]

_get_alert_trends(r) ==
    LET bs == Buckets(r.value, "daily_trends") IN
    IF NoBuckets(r) \/ MissingKey(bs, "key_as_string") \/ MissingKey(bs, "doc_count")
        THEN [alert_trends |-> <<>>]
        ELSE [alert_trends |->
                [i \in 1..Len(bs) |->
                    [date |-> bs[i].key_as_string, count |-> bs[i].doc_count]]]

\* bucket.get("latest", {}).get("hits", {}).get("hits", [])
LatestHits(bucket) ==
    Get(Get(Get(bucket, "latest", EmptyDict), "hits", EmptyDict), "hits", <<>>)

\* latest_hits[0].get("_source", {}).get("status", "")
LatestStatus(bucket) ==
    Get(Get(LatestHits(bucket)[1], "_source", EmptyDict), "status", [t |-> "str", v |-> ""])

HasLatest(bucket) == LatestHits(bucket) # <<>>

IsOnline(bucket) == Lower(LatestStatus(bucket).v) \in {"active", "connected"}

_get_agent_status(r) ==
    LET bs == Buckets(r.value, "agents") IN
    IF \/ NoBuckets(r)
       \/ \E i \in 1..Len(bs) : HasLatest(bs[i]) /\ LatestStatus(bs[i]).t # "str"
        THEN [agent_health |-> [total |-> 0, online |-> 0, offline |-> 0]]
        ELSE LET counted == SelectSeq(bs, HasLatest)
                 online == Len(SelectSeq(counted, IsOnline))
                 offline == Len(counted) - online
             IN  [agent_health |->
                    [total |-> online + offline, online |-> online, offline |-> offline]]

-----------------------------------------------------------------------------
(* core/stats.py: get_dashboard_statistics *)

\* order of the fragment calls, lines 47-57
NumFragments == 7

\* lines 29-36
alert_index(cn) ==
    IF Truthy(cn) THEN cn.str \o <<":">> \o <<"wazuh-alerts-*">> ELSE <<"wazuh-alerts-*">>

monitoring_index(cn) ==
    IF Truthy(cn) THEN cn.str \o <<":">> \o <<"wazuh-monitoring-*">>
    ELSE <<"wazuh-monitoring-*">>

\* the index each fragment passes to es_connector.search
FragmentIndex(f, cn) == IF f = 7 THEN monitoring_index(cn) ELSE alert_index(cn)

\* time_map.get(time_range, "now-24h") raises TypeError for an unhashable key
Unhashable(tr) == tr.t = "list"

\* lines 41-42
es_time_range(tr) ==
    CASE tr.v = "24h" -> "now-24h"
      [] tr.v = "7d" -> "now-7d"
      [] tr.v = "30d" -> "now-30d"
      [] OTHER -> "now-24h"

histogram_interval_shifted(tr) ==
    CASE tr.v = "24h" -> "1h"
      [] tr.v = "7d" -> "1d"
      [] tr.v = "30d" -> "1d"
      [] OTHER -> "6h"

\* lines 43-44
histogram_interval(tr) ==
    CASE tr.v = "24h" -> "1h"
      [] tr.v = "7d" -> "6h"
      [] tr.v = "30d" -> "1d"
      [] OTHER -> "1h"

\* the time filter and the calendar interval of each fragment's query body
FragmentQuery(f, tr) ==
    CASE f = 1 -> [gte |-> es_time_range(tr), interval |-> histogram_interval(tr)]
      [] f = 4 -> [gte |-> "match_all", interval |-> "none"]
      [] f = 6 -> [gte |-> es_time_range(tr), interval |-> "day"]
      [] f = 7 -> [gte |-> "now-2h", interval |-> "none"]
      [] OTHER -> [gte |-> es_time_range(tr), interval |-> "none"]

\* lines 49-51: the two keys taken from _get_severity_breakdown's result
SeverityUpdate(r) ==
    LET sev_result == _get_severity_breakdown(r) IN
    [severity_breakdown |-> Get(sev_result, "severity_breakdown", <<>>),
     severity_summary |-> Get(sev_result, "severity_summary", EmptyDict)]

\* the dict handed to stats.update for fragment f, whose search ended as r
FragmentUpdate(f, r) ==
    CASE f = 1 -> _get_alerts_per_hour(r)
      [] f = 2 -> SeverityUpdate(r)
      [] f = 3 -> _get_top_rules(r)
      [] f = 4 -> _get_top_agents(r)
      [] f = 5 -> _get_top_source_ips(r)
      [] f = 6 -> _get_alert_trends(r)
      [] f = 7 -> _get_agent_status(r)

stats_assign(st, d) == d

\* stats.update(d)
stats_update(st, d) == d @@ st

\* sum(summary.values())
RECURSIVE SumValues(_)
SumValues(d) ==
    IF DOMAIN d = {} THEN 0
    ELSE LET k == CHOOSE x \in DOMAIN d : TRUE
         IN  d[k] + SumValues([x \in DOMAIN d \ {k} |-> d[x]])

\* lines 60-62
Totals(st) ==
    LET summary == Get(st, "severity_summary", EmptyDict) IN
    ("critical_alerts" :> Get(summary, "critical", 0))
    @@ ("total_alerts" :> (IF summary # EmptyDict THEN SumValues(summary) ELSE 0))
    @@ st

\* lines 68-78: the dict returned by the except clause
ErrorStats ==
    [error |-> "unhashable type: 'list'",
     alerts_per_hour |-> <<>>,
     severity_breakdown |-> <<>>,
     severity_summary |-> EmptyDict,
     top_rules |-> <<>>,
     top_agents |-> <<>>,
     top_source_ips |-> <<>>,
     alert_trends |-> <<>>,
     agent_health |-> [total |-> 0, online |-> 0, offline |-> 0]]

-----------------------------------------------------------------------------
(* Backend responses and arguments the model draws from *)

Aggregation(name, bs) == JsonDict([aggregations |-> (name :> [buckets |-> bs])])

IntKey(n) == [t |-> "int", v |-> n]

StrStatus(s) == [t |-> "str", v |-> s]

NullStatus == [t |-> "null", v |-> ""]

AgentBucket(source) ==
    [key |-> "001", doc_count |-> 1,
     latest |-> [hits |-> [hits |-> <<[_source |-> source]>>]]]

\* a well-formed 200 body for each query of the pipeline
GoodBody(f) ==
    CASE f = 1 -> Aggregation("alerts_per_hour",
                      <<[key_as_string |-> "2024-05-01 10:00:00", doc_count |-> 4],
                        [key_as_string |-> "2024-05-01 11:00:00", doc_count |-> 1]>>)
      [] f = 2 -> Aggregation("severity_breakdown",
                      <<[key |-> IntKey(18), doc_count |-> 3],
                        [key |-> IntKey(12), doc_count |-> 5],
                        [key |-> IntKey(3), doc_count |-> 2]>>)
      [] f = 3 -> Aggregation("top_rules",
                      <<[key |-> "sshd: brute force", doc_count |-> 8]>>)
      [] f = 4 -> Aggregation("top_agents", <<[key |-> "web01", doc_count |-> 9]>>)
      [] f = 5 -> Aggregation("top_source_ips",
                      <<[key |-> "1.2.3.4", doc_count |-> 7,
                         country |-> [buckets |-> <<[key |-> "US"]>>]],
                        [key |-> "0.0.0.0", doc_count |-> 2]>>)
      [] f = 6 -> Aggregation("daily_trends",
                      <<[key_as_string |-> "2024-05-01", doc_count |-> 5]>>)
      [] f = 7 -> Aggregation("agents",
                      <<AgentBucket([status |-> StrStatus("active")]),
                        AgentBucket([status |-> StrStatus("disconnected")]),
                        AgentBucket([status |-> StrStatus("connected")])>>)

\* for some queries, a 200 body on which the fragment's reduction raises: a
\* bucket without "key", a body that is not an object, a null status
BadBodies(f) ==
    CASE f = 2 -> {Aggregation("severity_breakdown",
                      <<[key |-> IntKey(9), doc_count |-> 6], [doc_count |-> 5]>>)}
      [] f = 5 -> {JsonList}
      [] f = 7 -> {Aggregation("agents",
                      <<AgentBucket([status |-> StrStatus("active")]),
                        AgentBucket([status |-> NullStatus])>>)}
      [] OTHER -> {}

PipelineBodies(f) == {GoodBody(f)} \cup BadBodies(f)

\* 200 bodies of a search made outside the pipeline
SearchBodies ==
    {JsonDict(EmptyDict), JsonDict([hits |-> [total |-> 1]]), JsonList}

Bodies(f) == IF f = 0 THEN SearchBodies ELSE PipelineBodies(f)

Non200 == {401, 404, 503}

JsonErrorClasses == {"RequestException", "ValueError"}

PipelineTenants == {NoneVal, Str(<<"lab">>)}

TimeRanges ==
    {[t |-> "str", v |-> "7d"], [t |-> "str", v |-> "1y"], [t |-> "list", v |-> ""]}

Chars == {"a", ":", "*"}

Tenants == {NoneVal} \cup {Str(s) : s \in SeqsUpTo(Chars, MaxTenantLen)}

Patterns == SeqsUpTo(Chars, MaxLen)

SearchTenants == {NoneVal, Str(<<>>), Str(<<"lab">>), Str(<<"a", ":", "b">>)}

SearchPatterns ==
    {<<"wazuh-alerts-*">>, <<"lab", ":", "wazuh-alerts-*">>, <<"*", ":", "wazuh-alerts*">>, <<>>}

-----------------------------------------------------------------------------
(* State machine *)

NoRet == Returned(JsonDict(EmptyDict))

NoQuery == [gte |-> "none", interval |-> "none"]

InitCommon ==
    /\ client_name = NoneVal
    /\ time_range = [t |-> "str", v |-> "24h"]
    /\ frag = 0
    /\ url = <<>>
    /\ query = NoQuery
    /\ attempt = 0
    /\ sleeps = <<>>
    /\ posts = 0
    /\ outcomes = <<>>
    /\ ret = NoRet
    /\ results = EmptyDict
    /\ stats = EmptyDict
    /\ net_only = TRUE
    /\ output = <<>>

\* es_connector.search(index, query) up to the first requests.post
StartSearch(cn, index, q) ==
    /\ url' = search_index(cn, index)
    /\ query' = q
    /\ attempt' = 0
    /\ sleeps' = <<>>
    /\ posts' = 0
    /\ outcomes' = <<>>
    /\ ret' = NoRet
    /\ pc' = "post"

\* one requests.post of _execute_search_request and what the loop does with it
Post(resp) ==
    /\ LET it == Iteration(attempt, resp, json_error) IN
       /\ posts' = posts + 1
       /\ outcomes' = Append(outcomes, [kind |-> resp.kind, status_code |-> resp.status_code,
                                        decodable |-> resp.decodable])
       /\ IF it.next = "retry"
            THEN /\ attempt' = attempt + 1
                 /\ sleeps' = Append(sleeps, it.sleep)
                 /\ UNCHANGED <<pc, ret>>
            ELSE /\ pc' = "returned"
                 /\ ret' = it.end
                 /\ UNCHANGED <<attempt, sleeps>>
    /\ net_only' = (net_only /\ resp.kind = "neterr")
    /\ UNCHANGED <<json_error, client_name, time_range, frag, url, query, results,
                   stats, input, output>>

\* requests.post raises a RequestException
PostNetworkError ==
    /\ pc = "post"
    /\ Post(NetErr)

\* the backend answers with a status other than 200
PostNon200 ==
    /\ pc = "post"
    /\ \E code \in Non200 : Post(HttpResponse(code, TRUE, JsonDict(EmptyDict)))

\* the backend answers 200 with a body response.json() cannot decode
PostUndecodable ==
    /\ pc = "post"
    /\ Post(HttpResponse(200, FALSE, JsonDict(EmptyDict)))

\* the backend answers 200 with a JSON body
PostOk ==
    /\ pc = "post"
    /\ \E body \in Bodies(frag) : Post(HttpResponse(200, TRUE, body))

\* ElasticsearchConnector(es_config, client_name).search(index, body), called
\* on its own
Search ==
    /\ pc = "idle"
    /\ \E cn \in SearchTenants, index \in SearchPatterns :
        /\ client_name' = cn
        /\ StartSearch(cn, index, NoQuery)
    /\ UNCHANGED <<json_error, time_range, frag, results, stats, net_only, input, output>>

\* get_dashboard_statistics(client_name, time_range) up to the first query,
\* or up to its return when line 42 raises
Call ==
    /\ pc = "idle"
    /\ \E cn \in PipelineTenants, tr \in TimeRanges :
        /\ client_name' = cn
        /\ time_range' = tr
        /\ IF Unhashable(tr)
            THEN /\ stats' = ErrorStats
                 /\ pc' = "done"
                 /\ UNCHANGED <<frag, url, query, attempt, sleeps, posts, outcomes, ret>>
            ELSE /\ frag' = 1
                 /\ stats' = EmptyDict
                 /\ StartSearch(cn, FragmentIndex(1, cn), FragmentQuery(1, tr))
    /\ UNCHANGED <<json_error, results, net_only, input, output>>

\* the fragment function whose search has ended reduces the result, stats is
\* updated, and the pipeline goes on to the next query or returns
Reduce ==
    /\ pc = "returned"
    /\ frag \in 1..NumFragments
    /\ results' = (frag :> ret) @@ results
    /\ LET updated == stats_update(stats, FragmentUpdate(frag, ret)) IN
       IF frag < NumFragments
        THEN /\ stats' = updated
             /\ frag' = frag + 1
             /\ StartSearch(client_name, FragmentIndex(frag + 1, client_name),
                            FragmentQuery(frag + 1, time_range))
        ELSE /\ stats' = Totals(updated)
             /\ pc' = "done"
             /\ UNCHANGED <<frag, url, query, attempt, sleeps, posts, outcomes, ret>>
    /\ UNCHANGED <<json_error, client_name, time_range, net_only, input, output>>

Init ==
    /\ InitCommon
    /\ pc = "idle"
    /\ input = <<>>
    /\ json_error \in JsonErrorClasses

Next == Call \/ PostNetworkError \/ PostNon200 \/ PostUndecodable \/ PostOk \/ Reduce

Spec == Init /\ [][Next]_vars

NextSearch == Search \/ PostNetworkError \/ PostNon200 \/ PostUndecodable \/ PostOk

SpecSearch == Init /\ [][NextSearch]_vars

\* get_dashboard_statistics against a backend that is unavailable: no request
\* of the call is answered with a decodable 200 body
NextOutage == Call \/ PostNetworkError \/ PostNon200 \/ PostUndecodable \/ Reduce

\* every requests.post ends within its connect/read timeouts (line 45) and
\* every time.sleep ends, so a call that can take a step takes it
SpecOutage == Init /\ [][NextOutage]_vars /\ WF_vars(NextOutage)

-----------------------------------------------------------------------------
(* The operations applied on their own to arguments drawn from bounded sets *)

\* _scope_index
InitScope ==
    /\ InitCommon
    /\ json_error = "RequestException"
    /\ pc = "input"
    /\ \E cn \in Tenants, p \in Patterns : input = [cn |-> cn, index |-> p]

\* self._scope_index(index) on a connector of tenant cn
Scope ==
    /\ pc = "input"
    /\ output' = _scope_index(input.cn, input.index)
    /\ pc' = "applied"
    /\ UNCHANGED <<json_error, client_name, time_range, frag, url, query, attempt,
                   sleeps, posts, outcomes, ret, results, stats, net_only, input>>

\* the same connector scopes the index it has scoped
Rescope ==
    /\ pc = "applied"
    /\ input' = [cn |-> input.cn, index |-> output]
    /\ output' = _scope_index(input.cn, output)
    /\ pc' = "reapplied"
    /\ UNCHANGED <<json_error, client_name, time_range, frag, url, query, attempt,
                   sleeps, posts, outcomes, ret, results, stats, net_only>>

SpecScope == InitScope /\ [][Scope \/ Rescope]_vars

\* ways a fragment's search ends without a bucket list
NoBucketEnds == {Raised, Returned(JsonList), Returned(JsonDict(EmptyDict))}

SearchEnds(name, bucketSet) ==
    NoBucketEnds
    \cup {Returned(Aggregation(name, bs)) : bs \in SeqsUpTo(bucketSet, MaxBuckets)}

\* the levels on both sides of each band boundary
Levels == {6, 7, 11, 12, 14, 15}

Counts == {2, 5}

SeverityBuckets ==
    {[key |-> IntKey(l), doc_count |-> c] : l \in Levels, c \in Counts}
    \cup {[key |-> IntKey(18), doc_count |-> 3],
          [key |-> IntKey(3), doc_count |-> 2],
          [key |-> [t |-> "numstr", v |-> 15], doc_count |-> 2],
          [key |-> [t |-> "word", v |-> 0], doc_count |-> 2],
          [doc_count |-> 2]}

InitSeverity ==
    /\ InitCommon
    /\ json_error = "RequestException"
    /\ pc = "input"
    /\ input \in SearchEnds("severity_breakdown", SeverityBuckets)

\* lines 49-51 and 59-62 of get_dashboard_statistics on an empty stats
ReduceSeverity ==
    /\ pc = "input"
    /\ output' = Totals(stats_update(EmptyDict, SeverityUpdate(input)))
    /\ pc' = "applied"
    /\ UNCHANGED <<json_error, client_name, time_range, frag, url, query, attempt,
                   sleeps, posts, outcomes, ret, results, stats, net_only, input>>

SpecSeverity == InitSeverity /\ [][ReduceSeverity]_vars

Ips == {"", "0.0.0.0", "1.2.3.4", "8.8.8.8"}

IpBuckets ==
    {[key |-> ip, doc_count |-> 7] : ip \in Ips}
    \cup {[key |-> ip, doc_count |-> 4, country |-> [buckets |-> <<>>]] : ip \in Ips}
    \cup {[key |-> ip, doc_count |-> 2, country |-> [buckets |-> <<[key |-> "US"]>>]] :
            ip \in Ips}
    \cup {[key |-> "8.8.8.8", doc_count |-> 9, country |-> [buckets |-> <<EmptyDict>>]]}

InitSourceIps ==
    /\ InitCommon
    /\ json_error = "RequestException"
    /\ pc = "input"
    /\ input \in SearchEnds("top_source_ips", IpBuckets)

ReduceSourceIps ==
    /\ pc = "input"
    /\ output' = _get_top_source_ips(input)
    /\ pc' = "applied"
    /\ UNCHANGED <<json_error, client_name, time_range, frag, url, query, attempt,
                   sleeps, posts, outcomes, ret, results, stats, net_only, input>>

SpecSourceIps == InitSourceIps /\ [][ReduceSourceIps]_vars

Statuses ==
    {"active", "Active", "ACTIVE", "connected", "Connected", "disconnected",
     "Disconnected", "pending", ""}

AgentBuckets ==
    {AgentBucket([status |-> StrStatus(s)]) : s \in Statuses}
    \cup {AgentBucket([status |-> NullStatus]),
          AgentBucket([name |-> "web01"]),
          [key |-> "001", doc_count |-> 1, latest |-> [hits |-> [hits |-> <<>>]]]}

InitAgents ==
    /\ InitCommon
    /\ json_error = "RequestException"
    /\ pc = "input"
    /\ input \in SearchEnds("agents", AgentBuckets)

ReduceAgents ==
    /\ pc = "input"
    /\ output' = _get_agent_status(input)
    /\ pc' = "applied"
    /\ UNCHANGED <<json_error, client_name, time_range, frag, url, query, attempt,
                   sleeps, posts, outcomes, ret, results, stats, net_only, input>>

SpecAgents == InitAgents /\ [][ReduceAgents]_vars

-----------------------------------------------------------------------------
(* Properties of get_dashboard_statistics, checked under Spec *)

StatsKeys ==
    {"alerts_per_hour", "severity_breakdown", "severity_summary", "top_rules",
     "top_agents", "top_source_ips", "alert_trends", "agent_health",
     "total_alerts", "critical_alerts"}

\* the call has returned from the try body (line 64)
ReturnedNormally == pc = "done" /\ ~Unhashable(time_range)

\* the call has returned from the except clause (lines 66-78)
ReturnedError == pc = "done" /\ Unhashable(time_range)

\* fragment f's query failed: its search raised or returned {}, or returned a
\* body its reduction raises on
FragmentFailed(f) == results[f].raised \/ results[f].value # GoodBody(f)

\* what each fragment contributes when its query answers GoodBody(f)
FragmentComputed(f) ==
    CASE f = 1 -> stats.alerts_per_hour =
                    <<[timestamp |-> "2024-05-01 10:00:00", count |-> 4],
                      [timestamp |-> "2024-05-01 11:00:00", count |-> 1]>>
      [] f = 2 -> /\ stats.severity_breakdown =
                        <<[level |-> 18, count |-> 3], [level |-> 12, count |-> 5],
                          [level |-> 3, count |-> 2]>>
                  /\ stats.severity_summary =
                        [critical |-> 3, high |-> 5, medium |-> 0, low |-> 2]
                  /\ stats.total_alerts = 10
                  /\ stats.critical_alerts = 3
      [] f = 3 -> stats.top_rules = <<[description |-> "sshd: brute force", count |-> 8]>>
      [] f = 4 -> stats.top_agents = <<[agent_name |-> "web01", count |-> 9]>>
      [] f = 5 -> stats.top_source_ips = <<[ip |-> "1.2.3.4", count |-> 7, country |-> "US"]>>
      [] f = 6 -> stats.alert_trends = <<[date |-> "2024-05-01", count |-> 5]>>
      [] f = 7 -> stats.agent_health = [total |-> 3, online |-> 2, offline |-> 1]

\* the empty/zero value of each fragment's keys
FragmentEmpty(f) ==
    CASE f = 1 -> stats.alerts_per_hour = <<>>
      [] f = 2 -> /\ stats.severity_breakdown = <<>>
                  /\ \A b \in DOMAIN stats.severity_summary : stats.severity_summary[b] = 0
                  /\ stats.total_alerts = 0
                  /\ stats.critical_alerts = 0
      [] f = 3 -> stats.top_rules = <<>>
      [] f = 4 -> stats.top_agents = <<>>
      [] f = 5 -> stats.top_source_ips = <<>>
      [] f = 6 -> stats.alert_trends = <<>>
      [] f = 7 -> stats.agent_health = [total |-> 0, online |-> 0, offline |-> 0]

\* C1: failure isolation.  When get_dashboard_statistics returns from its try
\* body, the object has no "error" key, the keys of every fragment whose query
\* failed (search raised or returned {}, or the reduction raised on the body)
\* hold their empty/zero value, and the keys of every other fragment hold the
\* value computed from that fragment's own response, whatever happened to the
\* other queries of the call.
C1_FailureIsolation ==
    ReturnedNormally =>
        /\ "error" \notin DOMAIN stats
        /\ StatsKeys \subseteq DOMAIN stats
        /\ \A f \in 1..NumFragments :
            IF FragmentFailed(f) THEN FragmentEmpty(f) ELSE FragmentComputed(f)

\* a call in which exactly one query failed (here with a non-200 status on the
\* first attempt of the top-rules query) has returned
C1_Witness ==
    /\ ReturnedNormally
    /\ {f \in 1..NumFragments : FragmentFailed(f)} = {3}
    /\ results[3] = Returned(JsonDict(EmptyDict))

\* C2: fixed shape.  Every object get_dashboard_statistics returns has the ten
\* statistics keys, severity_summary has the four bands and agent_health has
\* total, online and offline; the object of the except clause has these keys
\* and "error", the object of the try body has these keys only.
C2_FixedShape ==
    pc = "done" =>
        /\ DOMAIN stats = (IF ReturnedError THEN StatsKeys \cup {"error"} ELSE StatsKeys)
        /\ DOMAIN stats.severity_summary = Bands
        /\ DOMAIN stats.agent_health = {"total", "online", "offline"}

\* C3: derived totals.  In every object get_dashboard_statistics returns,
\* total_alerts is the sum of the four severity bands and critical_alerts is
\* the critical band (a band absent from severity_summary counting as 0).
C3_Totals ==
    pc = "done" =>
        LET band(b) == Get(stats.severity_summary, b, 0) IN
        /\ "total_alerts" \in DOMAIN stats
        /\ "critical_alerts" \in DOMAIN stats
        /\ stats.total_alerts = band("critical") + band("high") + band("medium") + band("low")
        /\ stats.critical_alerts = band("critical")

\* C3 on the try body alone: the totals are derived from the summary there
C3_TotalsOnTryBody ==
    ReturnedNormally =>
        LET band(b) == Get(stats.severity_summary, b, 0) IN
        /\ stats.total_alerts = band("critical") + band("high") + band("medium") + band("low")
        /\ stats.critical_alerts = band("critical")

-----------------------------------------------------------------------------
(* Properties of ElasticsearchConnector.search, checked under SpecSearch *)

AllNetworkErrors == \A i \in 1..Len(outcomes) : outcomes[i].kind = "neterr"

EmptyResponse == Returned(JsonDict(EmptyDict))

\* C4: retry budget.  While every attempt of a search has failed at network
\* level, the search sleeps 1.5 s after the first failure and 3 s after the
\* second; after the third failure it returns {} without a further sleep and
\* without raising.  No search posts a fourth time.
C4_RetryBudget ==
    /\ posts <= 3
    /\ Len(outcomes) = posts
    /\ (AllNetworkErrors /\ pc = "post") =>
            /\ posts < 3
            /\ sleeps = [i \in 1..posts |-> 1500 * i]
    /\ (AllNetworkErrors /\ pc = "returned") =>
            /\ posts = 3
            /\ sleeps = <<1500, 3000>>
            /\ ret = EmptyResponse

\* a search whose three attempts all failed at network level has returned
C4_Witness ==
    /\ pc = "returned"
    /\ Len(outcomes) = 3
    /\ AllNetworkErrors

\* C5: an HTTP response ends the loop.  Whatever the attempt at which it
\* arrives, a response with a status code is the last thing the search sees:
\* the search has returned, it has not slept after it, a non-200 status gave
\* {} and a 200 status gave a returned body.
C5_StatusEndsLoop ==
    \A i \in 1..Len(outcomes) :
        outcomes[i].kind = "http" =>
            /\ i = Len(outcomes)
            /\ pc = "returned"
            /\ Len(sleeps) = i - 1
            /\ ~ret.raised
            /\ outcomes[i].status_code # 200 => ret = EmptyResponse

\* a 200 response whose body is not JSON arrived on the first attempt
C5_Witness ==
    /\ Len(outcomes) >= 1
    /\ outcomes[1].kind = "http"
    /\ outcomes[1].status_code = 200
    /\ ~outcomes[1].decodable

\* C6: search is total.  Whatever the backend did on each attempt, a search
\* that has ended has returned a value, and the value is {} unless the last
\* response was a 200 whose body was decoded.
C6_SearchNeverRaises ==
    pc = "returned" =>
        /\ ~ret.raised
        /\ ret # EmptyResponse =>
                /\ outcomes[Len(outcomes)].status_code = 200
                /\ outcomes[Len(outcomes)].decodable

\* a search has ended on a 200 response whose body is not JSON
C6_Witness ==
    /\ pc = "returned"
    /\ outcomes[Len(outcomes)].status_code = 200
    /\ ~outcomes[Len(outcomes)].decodable

-----------------------------------------------------------------------------
(* Properties of _scope_index, checked under SpecScope *)

\* the tenant is absent: None or the empty string
NoTenant(cn) == cn.none \/ cn.str = <<>>

\* C7: _scope_index.  With no tenant the result is the pattern; with a tenant
\* and a pattern containing ":" the result is the pattern; otherwise it is the
\* tenant, ":" and the pattern.  Scoping the result again leaves it unchanged.
C7_ScopeIndex ==
    /\ pc = "applied" =>
        output = (IF NoTenant(input.cn) THEN input.index
                  ELSE IF \E i \in DOMAIN input.index : input.index[i] = ":"
                        THEN input.index
                  ELSE input.cn.str \o <<":">> \o input.index)
    /\ pc = "reapplied" => output = input.index

\* a tenant's connector has prefixed a pattern without ":" and scoped the
\* prefixed name again
C7_Witness ==
    /\ pc = "reapplied"
    /\ input.cn = Str(<<"a">>)
    /\ input.index = <<"a", ":", "a", "*">>

-----------------------------------------------------------------------------
(* Properties of the severity reduction, checked under SpecSeverity *)

\* the bands as intervals of the level
InBand(level, b) ==
    CASE b = "critical" -> level >= 15
      [] b = "high" -> 12 <= level /\ level < 15
      [] b = "medium" -> 7 <= level /\ level < 12
      [] b = "low" -> level < 7

LevelRange == -3..20

\* the search returned a bucket list whose buckets each have an integer level
\* and a count
SeverityInput ==
    /\ ~input.raised
    /\ input.value.t = "dict"
    /\ \A i \in DOMAIN Buckets(input.value, "severity_breakdown") :
        LET b == Buckets(input.value, "severity_breakdown")[i] IN
        /\ {"key", "doc_count"} \subseteq DOMAIN b
        /\ b.key.t \in {"int", "numstr"}

ExampleSeverity ==
    Returned(Aggregation("severity_breakdown",
        <<[key |-> IntKey(18), doc_count |-> 3],
          [key |-> IntKey(12), doc_count |-> 5],
          [key |-> IntKey(3), doc_count |-> 2]>>))

\* C8: severity reduction.  Every level lies in exactly one band, the one the
\* code gives it (>= 15 critical, 12..14 high, 7..11 medium, < 7 low).  For
\* every bucket list, each band of severity_summary is the sum of the counts
\* of the buckets whose level lies in the band, severity_breakdown has one
\* {level, count} entry per bucket in order, total_alerts is the sum of all
\* counts and critical_alerts the critical band.  Buckets (18,3),(12,5),(3,2)
\* give {critical 3, high 5, medium 0, low 2}, total 10, critical 3.
C8_SeverityReduction ==
    /\ \A l \in LevelRange \cup Levels :
        /\ Cardinality({b \in Bands : InBand(l, b)}) = 1
        /\ InBand(l, Band(l))
    /\ (pc = "applied" /\ SeverityInput) =>
        LET bs == Buckets(input.value, "severity_breakdown") IN
        /\ DOMAIN output.severity_summary = Bands
        /\ \A b \in Bands :
            output.severity_summary[b] =
                SumSeq([i \in 1..Len(bs) |->
                            IF InBand(bs[i].key.v, b) THEN bs[i].doc_count ELSE 0])
        /\ output.severity_breakdown =
                [i \in 1..Len(bs) |-> [level |-> bs[i].key.v, count |-> bs[i].doc_count]]
        /\ output.total_alerts = SumSeq([i \in 1..Len(bs) |-> bs[i].doc_count])
        /\ output.critical_alerts = output.severity_summary["critical"]
    /\ (pc = "applied" /\ input = ExampleSeverity) =>
        /\ output.severity_summary = [critical |-> 3, high |-> 5, medium |-> 0, low |-> 2]
        /\ output.total_alerts = 10
        /\ output.critical_alerts = 3

\* the buckets of the example have been reduced
C8_Witness ==
    /\ pc = "applied"
    /\ input = ExampleSeverity
    /\ Len(output.severity_breakdown) = 3

-----------------------------------------------------------------------------
(* Properties of the source-IP reduction, checked under SpecSourceIps *)

\* C9: source-IP reduction.  For every bucket list the engine returns,
\* top_source_ips has no entry whose ip is "" or "0.0.0.0" and has, in engine
\* order, one entry with the ip and count of every other bucket.
C9_SourceIps ==
    (pc = "applied" /\ ~input.raised /\ input.value.t = "dict") =>
        LET bs == Buckets(input.value, "top_source_ips")
            others == SelectSeq(bs, LAMBDA b : b.key # "" /\ b.key # "0.0.0.0")
            ips == output.top_source_ips
        IN  /\ Len(ips) = Len(others)
            /\ \A i \in 1..Len(ips) :
                /\ ips[i].ip = others[i].key
                /\ ips[i].count = others[i].doc_count
                /\ DOMAIN ips[i] = {"ip", "count", "country"}
                /\ ips[i].ip \notin {"", "0.0.0.0"}

\* part of C9 the code keeps: no entry has the ip "" or "0.0.0.0"
C9_NoUnattributable ==
    pc = "applied" =>
        \A i \in 1..Len(output.top_source_ips) :
            output.top_source_ips[i].ip \notin {"", "0.0.0.0"}

-----------------------------------------------------------------------------
(* Properties of the agent-health reduction, checked under SpecAgents *)

\* every bucket carries one latest record
AgentsInput ==
    /\ ~input.raised
    /\ input.value.t = "dict"
    /\ \A i \in DOMAIN Buckets(input.value, "agents") :
        Len(Buckets(input.value, "agents")[i].latest.hits.hits) = 1

\* the latest record's status is "active" or "connected" in some casing
OnlineStatus(bucket) ==
    LET source == bucket.latest.hits.hits[1]._source IN
    /\ "status" \in DOMAIN source
    /\ source.status.t = "str"
    /\ source.status.v \in {"active", "Active", "ACTIVE", "connected", "Connected"}

\* C10: agent-health reduction.  For buckets each carrying one latest record,
\* online counts the buckets whose latest status is "active" or "connected"
\* case-insensitively, offline counts all the others (any other, missing or
\* null status), and total = online + offline = the number of buckets.
C10_AgentHealth ==
    (pc = "applied" /\ AgentsInput) =>
        LET bs == Buckets(input.value, "agents")
            n == Cardinality({i \in 1..Len(bs) : OnlineStatus(bs[i])})
        IN  output.agent_health =
                [total |-> Len(bs), online |-> n, offline |-> Len(bs) - n]

\* C10 for buckets whose latest status is a string or is missing
C10_AgentHealthStrings ==
    (/\ pc = "applied"
     /\ AgentsInput
     /\ \A i \in DOMAIN Buckets(input.value, "agents") :
            LatestStatus(Buckets(input.value, "agents")[i]).t = "str") =>
        LET bs == Buckets(input.value, "agents")
            n == Cardinality({i \in 1..Len(bs) : OnlineStatus(bs[i])})
        IN  output.agent_health =
                [total |-> Len(bs), online |-> n, offline |-> Len(bs) - n]

-----------------------------------------------------------------------------
(* The time-window lookup of get_dashboard_statistics, on its own *)

TokenStrings ==
    {"24h", "7d", "30d", "", "24H", "7D", "30D", "1h", "6h", "1d", "24", "7", "30",
     "now-24h", "now-7d", "now-30d", "1y", "12h", "48h", "90d", "all", "24h ", "d7"}

\* time_range values: strings, None, and a list (unhashable)
Tokens ==
    {[t |-> "str", v |-> x] : x \in TokenStrings}
    \cup {[t |-> "none", v |-> ""], [t |-> "list", v |-> ""]}

InitTimeWindow ==
    /\ InitCommon
    /\ json_error = "RequestException"
    /\ pc = "input"
    /\ \E tr \in Tokens, f \in 1..NumFragments : input = [tr |-> tr, f |-> f]

\* lines 40-44 for time_range input.tr, and the time filter and interval that
\* fragment input.f's query is then built with
ResolveTimeWindow ==
    /\ pc = "input"
    /\ output' =
        IF Unhashable(input.tr)
            THEN [raised |-> TRUE, range |-> "", interval |-> "", query |-> NoQuery]
            ELSE [raised |-> FALSE,
                  range |-> es_time_range(input.tr),
                  interval |-> histogram_interval(input.tr),
                  query |-> FragmentQuery(input.f, input.tr)]
    /\ pc' = "applied"
    /\ UNCHANGED <<json_error, client_name, time_range, frag, url, query, attempt,
                   sleeps, posts, outcomes, ret, results, stats, net_only, input>>

SpecTimeWindow == InitTimeWindow /\ [][ResolveTimeWindow]_vars

\* the table of the claim: token, range expression, interval
WindowRows ==
    {<<"24h", "now-24h", "1h">>, <<"7d", "now-7d", "6h">>, <<"30d", "now-30d", "1d">>}

\* the row a token resolves to: its own, or the "24h" row
RowOf(tr) ==
    IF tr.t = "str" /\ \E row \in WindowRows : row[1] = tr.v
        THEN CHOOSE row \in WindowRows : row[1] = tr.v
        ELSE <<"24h", "now-24h", "1h">>

\* C11: time-window lookup.  "24h", "7d" and "30d" resolve to (now-24h, 1h),
\* (now-7d, 6h) and (now-30d, 1d), every other token to (now-24h, 1h); the
\* range and the interval are those of one row, and the queries are built
\* with them (the histogram query with both, the other time-filtered queries
\* with the range).
C11_TimeWindow ==
    (pc = "applied" /\ ~Unhashable(input.tr)) =>
        /\ ~output.raised
        /\ <<output.range, output.interval>> = <<RowOf(input.tr)[2], RowOf(input.tr)[3]>>
        /\ \E row \in WindowRows : output.range = row[2] /\ output.interval = row[3]
        /\ input.f = 1 =>
                /\ output.query.gte = RowOf(input.tr)[2]
                /\ output.query.interval = RowOf(input.tr)[3]
        /\ input.f \in {2, 3, 5, 6} => output.query.gte = RowOf(input.tr)[2]

\* an unknown token has been resolved for the histogram query
C11_Witness ==
    /\ pc = "applied"
    /\ input = [tr |-> [t |-> "str", v |-> "1y"], f |-> 1]
    /\ output.query = [gte |-> "now-24h", interval |-> "1h"]

-----------------------------------------------------------------------------
(* Termination of get_dashboard_statistics, checked under SpecOutage *)

ZeroedStats ==
    [alerts_per_hour |-> <<>>,
     severity_breakdown |-> <<>>,
     severity_summary |-> [critical |-> 0, high |-> 0, medium |-> 0, low |-> 0],
     top_rules |-> <<>>,
     top_agents |-> <<>>,
     top_source_ips |-> <<>>,
     alert_trends |-> <<>>,
     agent_health |-> [total |-> 0, online |-> 0, offline |-> 0],
     total_alerts |-> 0,
     critical_alerts |-> 0]

\* no query posts more than three times, and a call all of whose requests
\* raised a network error returns exactly the zeroed object
BoundedAndZeroed ==
    /\ posts <= 3
    /\ (ReturnedNormally /\ net_only) =>
        /\ stats = ZeroedStats
        /\ \A f \in 1..NumFragments : results[f] = Returned(JsonDict(EmptyDict))

\* C12: termination.  Every call of get_dashboard_statistics returns; no
\* query of it posts more than 3 times; and when every request of the call
\* failed at network level the returned object is the zeroed result (empty
\* lists, agent_health, the four severity bands and both totals 0, no
\* "error"), no exception having left a search.
C12_Terminates == <>(pc = "done") /\ []BoundedAndZeroed

\* a call whose 21 requests all raised a network error has returned
C12_Witness ==
    /\ ReturnedNormally
    /\ net_only
    /\ posts = 3

\* what is left of a call: queries still to issue, then posts still allowed
Variant ==
    CASE pc = "idle" -> 5 * NumFragments + 5
      [] pc = "post" -> 5 * (NumFragments - frag) + 4 - posts
      [] pc = "returned" -> 5 * (NumFragments - frag) + 1
      [] OTHER -> 0

\* supporting lemma, checked under Spec: with any mix of responses every step
\* of a call brings it nearer to its return
C12_VariantDecreases == [][Variant' < Variant]_vars

\* supporting lemma, checked under Spec: a call that has not returned is at
\* a point where Call, a post or Reduce can act
C12_NeverStuck ==
    /\ pc \in {"idle", "post", "returned", "done"}
    /\ (pc \in {"post", "returned"}) => frag \in 1..NumFragments

-----------------------------------------------------------------------------
(* Country default of the source-IP reduction, checked under SpecSourceIps *)

\* the country sub-aggregation of a bucket has no entries: it is absent, or
\* present with an empty bucket list
NoCountryEntries(bucket) ==
    \/ "country" \notin DOMAIN bucket
    \/ Get(bucket.country, "buckets", <<>>) = <<>>

\* the buckets of the input the reduction does not exclude
NonExcluded ==
    SelectSeq(Buckets(input.value, "top_source_ips"), Attributable)

\* C13: country default.  Every non-excluded bucket whose country
\* sub-aggregation is absent or has an empty bucket list is emitted with
\* country "Unknown", and the other buckets of the response are emitted too.
C13_CountryDefault ==
    (pc = "applied" /\ ~input.raised /\ input.value.t = "dict") =>
        LET ips == output.top_source_ips IN
        /\ Len(ips) = Len(NonExcluded)
        /\ \A i \in 1..Len(ips) :
            /\ ips[i].ip = NonExcluded[i].key
            /\ NoCountryEntries(NonExcluded[i]) => ips[i].country = "Unknown"

\* a response with a non-excluded bucket whose country bucket list is empty
\* has been reduced
C13_Witness ==
    /\ pc = "applied"
    /\ ~input.raised
    /\ input.value.t = "dict"
    /\ \E i \in 1..Len(NonExcluded) :
        /\ "country" \in DOMAIN NonExcluded[i]
        /\ NoCountryEntries(NonExcluded[i])

\* part of C13 the code keeps: when no non-excluded bucket has a country
\* sub-aggregation with an empty bucket list, every one is emitted, with
\* country "Unknown" where the sub-aggregation is absent or its first entry
\* has no key
C13_AbsentCountry ==
    (/\ pc = "applied" /\ ~input.raised /\ input.value.t = "dict"
     /\ \A i \in 1..Len(NonExcluded) : CountryBuckets(NonExcluded[i]) # <<>>) =>
        LET ips == output.top_source_ips IN
        /\ Len(ips) = Len(NonExcluded)
        /\ \A i \in 1..Len(ips) :
            /\ ips[i].ip = NonExcluded[i].key
            /\ ("country" \notin DOMAIN NonExcluded[i]) => ips[i].country = "Unknown"
            /\ (CountryBuckets(NonExcluded[i]) = <<EmptyDict>>) => ips[i].country = "Unknown"

-----------------------------------------------------------------------------
(* Index names of the pipeline's queries *)

InitPipelineIndex ==
    /\ InitCommon
    /\ json_error = "RequestException"
    /\ pc = "input"
    /\ \E cn \in Tenants, f \in 1..NumFragments : input = [cn |-> cn, f |-> f]

\* the index fragment f of get_dashboard_statistics(cn, ...) passes to
\* es_connector.search, and the index search puts in the URL
ScopePipelineIndex ==
    /\ pc = "input"
    /\ output' = [index |-> FragmentIndex(input.f, input.cn),
                  scoped_index |-> search_index(input.cn,
                                                FragmentIndex(input.f, input.cn))]
    /\ pc' = "applied"
    /\ UNCHANGED <<json_error, client_name, time_range, frag, url, query, attempt,
                   sleeps, posts, outcomes, ret, results, stats, net_only, input>>

SpecPipelineIndex == InitPipelineIndex /\ [][ScopePipelineIndex]_vars

\* the unprefixed pattern of fragment f
BarePattern(f) == IF f = 7 THEN <<"wazuh-monitoring-*">> ELSE <<"wazuh-alerts-*">>

\* the index name carrying the prefix of tenant cn exactly once
PrefixedOnce(cn, f) ==
    IF Truthy(cn) THEN cn.str \o <<":">> \o BarePattern(f) ELSE BarePattern(f)

\* C14: index scoping in the pipeline.  For every tenant id t every query of
\* get_dashboard_statistics goes to "t:wazuh-alerts-*" ("t:wazuh-monitoring-*"
\* for agent health), with no tenant to the unprefixed pattern; none goes out
\* double-prefixed or unprefixed.
C14_PipelineIndex ==
    pc = "applied" =>
        /\ output.scoped_index = PrefixedOnce(input.cn, input.f)
        /\ Truthy(input.cn) =>
            /\ output.scoped_index # BarePattern(input.f)
            /\ output.scoped_index #
                input.cn.str \o <<":">> \o input.cn.str \o <<":">> \o BarePattern(input.f)

\* the agent-health query of a tenant-scoped call has been given its index
C14_Witness ==
    /\ pc = "applied"
    /\ Truthy(input.cn)
    /\ input.f = 7
    /\ output.scoped_index = input.cn.str \o <<":", "wazuh-monitoring-*">>

\* supporting lemma, checked under Spec: the URL of every request of a call
\* carries the index prefixed once
C14_UrlOfCall ==
    (pc \in {"post", "returned"} /\ frag \in 1..NumFragments) =>
        url = PrefixedOnce(client_name, frag)

-----------------------------------------------------------------------------
(* The two time-series reductions applied to the same histogram buckets *)

HistogramBuckets ==
    {[key_as_string |-> k, doc_count |-> c] :
        k \in {"2024-05-01T00:00:00.000Z", "2024-05-02T00:00:00.000Z"}, c \in {0, 5}}

InitTimeSeries ==
    /\ InitCommon
    /\ json_error = "RequestException"
    /\ pc = "input"
    /\ input \in SeqsUpTo(HistogramBuckets, MaxBuckets)

\* _get_alerts_per_hour and _get_alert_trends, each on a response whose
\* date_histogram holds the buckets of input
ReduceTimeSeries ==
    /\ pc = "input"
    /\ output' = _get_alerts_per_hour(Returned(Aggregation("alerts_per_hour", input)))
                 @@ _get_alert_trends(Returned(Aggregation("daily_trends", input)))
    /\ pc' = "applied"
    /\ UNCHANGED <<json_error, client_name, time_range, frag, url, query, attempt,
                   sleeps, posts, outcomes, ret, results, stats, net_only, input>>

SpecTimeSeries == InitTimeSeries /\ [][ReduceTimeSeries]_vars

\* series has one entry per bucket of input, in order, whose field named
\* stamp is the bucket's formatted key and whose count is its document count
SeriesOf(series, stamp) ==
    /\ Len(series) = Len(input)
    /\ \A i \in 1..Len(series) :
        /\ DOMAIN series[i] = {stamp, "count"}
        /\ series[i][stamp] = input[i].key_as_string
        /\ series[i].count = input[i].doc_count

\* C15: time-series reduction.  For every list of histogram buckets both
\* alerts_per_hour and alert_trends have one entry per bucket, in engine
\* order, each with the keys timestamp (the bucket's formatted key) and count
\* (the bucket's document count).
C15_TimeSeries ==
    pc = "applied" =>
        /\ SeriesOf(output.alerts_per_hour, "timestamp")
        /\ SeriesOf(output.alert_trends, "timestamp")

\* a list of two or more histogram buckets has been reduced by both
C15_Witness ==
    /\ pc = "applied"
    /\ Len(input) >= 2
    /\ Len(output.alerts_per_hour) = Len(input)
    /\ Len(output.alert_trends) = Len(input)

\* part of C15 the code keeps: one entry per bucket in engine order in both
\* series, the formatted key under "timestamp" in alerts_per_hour and under
\* "date" in alert_trends
C15_SeriesAsCoded ==
    pc = "applied" =>
        /\ SeriesOf(output.alerts_per_hour, "timestamp")
        /\ SeriesOf(output.alert_trends, "date")

-----------------------------------------------------------------------------
(* format_query_results *)

MaxHits == 2

\* decoded JSON values other than objects: null, numbers, strings (as the
\* sequence of their pieces) and arrays
JNull == [t |-> "null"]

JInt(n) == [t |-> "int", n |-> n]

JStr(s) == [t |-> "str", s |-> s]

JArr(l) == [t |-> "list", l |-> l]

\* v has a .get method; v.get on anything but a dict raises AttributeError
HasGet(v) == v.t = "dict"

\* v.get(k, default) of a dict v
Attr(v, k, default) == IF k \in DOMAIN v.d THEN v.d[k] ELSE default

\* `for doc in v` does not raise TypeError
Iterable(v) == v.t \in {"list", "str", "dict"}

\* what `for doc in v` iterates: the elements of a list, the characters of a
\* string, the keys of a dict
Items(v) ==
    CASE v.t = "list" -> v.l
      [] v.t = "str" -> [i \in 1..Len(v.s) |-> JStr(<<v.s[i]>>)]
      [] v.t = "dict" ->
            LET ks == {JStr(<<k>>) : k \in DOMAIN v.d} IN
            CHOOSE q \in [1..Cardinality(ks) -> ks] : \A k \in ks : \E i \in DOMAIN q : q[i] = k

\* lines 13-15
HitsOf(raw) == Attr(raw, "hits", JsonDict(EmptyDict))

TotalOf(hits) ==
    IF Attr(hits, "total", JNull).t = "dict"
        THEN Attr(Attr(hits, "total", JsonDict(EmptyDict)), "value", JInt(0))
        ELSE Attr(hits, "total", JInt(0))

DocumentsOf(hits) == Attr(hits, "hits", JArr(<<>>))

\* lines 26-44
SourceOf(doc) == Attr(doc, "_source", JsonDict(EmptyDict))

AgentOf(source) == Attr(source, "agent", JsonDict(EmptyDict))

RuleOf(source) == Attr(source, "rule", JsonDict(EmptyDict))

\* building formatted_doc raises AttributeError
DocRaises(doc) ==
    \/ ~HasGet(doc)
    \/ ~HasGet(SourceOf(doc))
    \/ ~HasGet(AgentOf(SourceOf(doc)))
    \/ ~HasGet(RuleOf(SourceOf(doc)))

formatted_doc(doc) ==
    LET source == SourceOf(doc)
        agent == AgentOf(source)
        rule == RuleOf(source)
    IN  [id |-> Attr(doc, "_id", JNull),
         index |-> Attr(doc, "_index", JNull),
         score |-> Attr(doc, "_score", JNull),
         timestamp |-> Attr(source, "@timestamp", JNull),
         agent |-> [id |-> Attr(agent, "id", JNull),
                    name |-> Attr(agent, "name", JNull),
                    ip |-> Attr(agent, "ip", JNull)],
         rule |-> [id |-> Attr(rule, "id", JNull),
                   level |-> Attr(rule, "level", JNull),
                   description |-> Attr(rule, "description", JNull),
                   groups |-> Attr(rule, "groups", JArr(<<>>))],
         data |-> Attr(source, "data", JsonDict(EmptyDict)),
         full_log |-> Attr(source, "full_log", JNull),
         decoder |-> Attr(source, "decoder", JsonDict(EmptyDict))]

\* the except clause, lines 50-54
FormatError(raw) == [error |-> "Failed to format results", raw_results |-> raw]

format_query_results_skipping(raw) ==
    IF \/ ~HasGet(raw)
       \/ ~HasGet(HitsOf(raw))
       \/ ~Iterable(DocumentsOf(HitsOf(raw)))
        THEN FormatError(raw)
        ELSE LET docs == SelectSeq(Items(DocumentsOf(HitsOf(raw))),
                                   LAMBDA doc : ~DocRaises(doc))
             IN  [total_hits |-> TotalOf(HitsOf(raw)),
                  max_score |-> Attr(HitsOf(raw), "max_score", JNull),
                  documents |-> [i \in 1..Len(docs) |-> formatted_doc(docs[i])]]

format_query_results(raw) ==
    IF \/ ~HasGet(raw)
       \/ ~HasGet(HitsOf(raw))
       \/ ~Iterable(DocumentsOf(HitsOf(raw)))
       \/ \E i \in 1..Len(Items(DocumentsOf(HitsOf(raw)))) :
            DocRaises(Items(DocumentsOf(HitsOf(raw)))[i])
        THEN FormatError(raw)
        ELSE LET docs == Items(DocumentsOf(HitsOf(raw))) IN
             [total_hits |-> TotalOf(HitsOf(raw)),
              max_score |-> Attr(HitsOf(raw), "max_score", JNull),
              documents |-> [i \in 1..Len(docs) |-> formatted_doc(docs[i])]]

\* hits of a search response: complete, without _source, without agent and
\* rule, with some of their sub-fields, with a null agent, with a null
\* _source, and an element that is not an object
FullSource ==
    JsonDict([agent |-> JsonDict([id |-> JStr(<<"001">>), name |-> JStr(<<"web01">>),
                                  ip |-> JStr(<<"10.0.0.5">>)]),
              rule |-> JsonDict([id |-> JStr(<<"5710">>), level |-> JInt(10),
                                 description |-> JStr(<<"sshd: brute force">>),
                                 groups |-> JArr(<<JStr(<<"sshd">>)>>)]),
              data |-> JsonDict([srcip |-> JStr(<<"1.2.3.4">>)]),
              full_log |-> JStr(<<"Failed password">>),
              decoder |-> JsonDict([name |-> JStr(<<"sshd">>)])])

HitDocs ==
    {JsonDict([_id |-> JStr(<<"a1">>), _index |-> JStr(<<"wazuh-alerts-1">>),
               _score |-> JInt(1), _source |-> FullSource]),
     JsonDict([_id |-> JStr(<<"a2">>)]),
     JsonDict([_id |-> JStr(<<"a3">>),
               _source |-> JsonDict([full_log |-> JStr(<<"Failed password">>)])]),
     JsonDict([_id |-> JStr(<<"a4">>),
               _source |-> JsonDict([agent |-> JsonDict([id |-> JStr(<<"001">>)]),
                                     rule |-> JsonDict([id |-> JStr(<<"5710">>),
                                                        level |-> JInt(10)])])]),
     JsonDict([_id |-> JStr(<<"a5">>), _source |-> JsonDict([agent |-> JNull])]),
     JsonDict([_id |-> JStr(<<"a6">>), _source |-> JNull]),
     JStr(<<"a7">>)}

HitTotals ==
    {JsonDict([value |-> JInt(3), relation |-> JStr(<<"eq">>)]),
     JsonDict([relation |-> JStr(<<"eq">>)]),
     JInt(2)}

RawResults ==
    {JsonDict([hits |-> JsonDict([total |-> tot, max_score |-> JInt(1), hits |-> JArr(docs)])]) :
        tot \in HitTotals, docs \in SeqsUpTo(HitDocs, MaxHits)}
    \cup {JsonDict([hits |-> JsonDict([hits |-> JArr(docs)])]) : docs \in SeqsUpTo(HitDocs, 1)}
    \cup {JsonDict([hits |-> JsonDict([hits |-> h])]) :
            h \in {JNull, JInt(0), JStr(<<>>), JStr(<<"a", "b">>), JsonDict(EmptyDict),
                   JsonDict([a1 |-> JNull])}}
    \cup {JsonDict(EmptyDict), JsonDict([hits |-> JNull]), JsonDict([error |-> JStr(<<"x">>)]),
          JArr(<<>>), JNull}

InitFormat ==
    /\ InitCommon
    /\ json_error = "RequestException"
    /\ pc = "input"
    /\ input \in RawResults

\* format_query_results(raw_results)
Format ==
    /\ pc = "input"
    /\ output' = format_query_results(input)
    /\ pc' = "applied"
    /\ UNCHANGED <<json_error, client_name, time_range, frag, url, query, attempt,
                   sleeps, posts, outcomes, ret, results, stats, net_only, input>>

SpecFormat == InitFormat /\ [][Format]_vars

-----------------------------------------------------------------------------
(* Properties of format_query_results, checked under SpecFormat *)

IsFormatError == DOMAIN output = {"error", "raw_results"}

IsFormatted == DOMAIN output = {"total_hits", "max_score", "documents"}

DocKeys ==
    {"id", "index", "score", "timestamp", "agent", "rule", "data", "full_log", "decoder"}

\* the hits of the input, when the input is a response that has them
InputHits == Items(Attr(Attr(input, "hits", JsonDict(EmptyDict)), "hits", JArr(<<>>)))

\* out is the normalized document of hit doc: every agent and rule sub-field
\* the hit lacks is null, and a lacking rule.groups is noGroups
NormalizedDoc(out, doc, noGroups) ==
    LET source == Attr(doc, "_source", JsonDict(EmptyDict))
        agent == Attr(source, "agent", JsonDict(EmptyDict))
        rule == Attr(source, "rule", JsonDict(EmptyDict))
    IN  /\ DOMAIN out = DocKeys
        /\ out.id = Attr(doc, "_id", JNull)
        /\ DOMAIN out.agent = {"id", "name", "ip"}
        /\ \A k \in {"id", "name", "ip"} : out.agent[k] = Attr(agent, k, JNull)
        /\ DOMAIN out.rule = {"id", "level", "description", "groups"}
        /\ \A k \in {"id", "level", "description"} : out.rule[k] = Attr(rule, k, JNull)
        /\ out.rule.groups = Attr(rule, "groups", noGroups)

\* the output is either the error object carrying the unmodified input or
\* the formatted object with one normalized document per hit, in hit order
ErrorOrFormatted(noGroups) ==
    \/ /\ IsFormatError
       /\ output.raw_results = input
    \/ /\ IsFormatted
       /\ Len(output.documents) = Len(InputHits)
       /\ \A i \in 1..Len(InputHits) :
            NormalizedDoc(output.documents[i], InputHits[i], noGroups)

\* C16 as stated: format_query_results returns for every input, either
\* {total_hits, max_score, documents} with one normalized document per hit in
\* hit order, every missing agent or rule sub-field being null, or
\* {error, raw_results} with the unmodified input; never a partial list.
C16_FormatTotalNull == pc = "applied" => ErrorOrFormatted(JNull)

\* C16 amended: the same, except that a missing rule.groups resolves to the
\* empty list instead of null.
C16_FormatTotal == pc = "applied" => ErrorOrFormatted(JArr(<<>>))

\* a response of two hits, one of them without rule.groups, has been
\* formatted
C16_Witness ==
    /\ pc = "applied"
    /\ IsFormatted
    /\ Len(output.documents) = 2
    /\ \E i \in 1..2 : output.documents[i].rule.groups = JArr(<<>>)

\* supporting lemma: the error object is returned exactly when the input
\* is not an object, its hits are not an object, the hit list cannot be
\* iterated, or building some document raises
C16_ErrorWhen ==
    pc = "applied" =>
        (IsFormatError <=>
            \/ ~HasGet(input)
            \/ ~HasGet(HitsOf(input))
            \/ ~Iterable(DocumentsOf(HitsOf(input)))
            \/ \E i \in 1..Len(InputHits) : DocRaises(InputHits[i]))

-----------------------------------------------------------------------------
(* ElasticsearchConnector.get_indices *)

MaxIndices == 2

\* sub in s, for strings given as the sequences of their pieces
Contains(sub, s) ==
    \E i \in 0..(Len(s) - Len(sub)) : SubSeq(s, i + 1, i + Len(sub)) = sub

\* "wazuh" in name
HasMarker(name) == Contains(<<"wazuh">>, name)

\* idx.get("index", "") of one entry of the _cat/indices listing
NameOf(idx) == Attr(idx, "index", JStr(<<>>))

\* reading the name of an entry and testing it for the marker raises: the
\* entry has no .get, or its name is null or a number
EntryRaises(idx) ==
    \/ ~HasGet(idx)
    \/ NameOf(idx).t \in {"null", "int"}

\* lines 127-135: whether a name goes into filtered
Filtered(cn, name) ==
    /\ HasMarker(name)
    /\ Truthy(cn) => (Contains(cn.str, name) \/ ~HasColon(name))

\* get_indices on a connector of tenant cn whose requests.get ends as resp
get_indices(cn, resp) ==
    IF \/ resp.kind = "neterr"
       \/ resp.status_code # 200
       \/ ~resp.decodable
       \/ ~Iterable(resp.body)
       \/ \E i \in 1..Len(Items(resp.body)) : EntryRaises(Items(resp.body)[i])
        THEN <<>>
        ELSE LET names == [i \in 1..Len(Items(resp.body)) |-> NameOf(Items(resp.body)[i]).s]
             IN  SelectSeq(names, LAMBDA name : Filtered(cn, name))

\* index names: global and tenant-tagged, with and without the marker
IndexNames ==
    {<<"wazuh", "-alerts-1">>,
     <<"lab", ":", "wazuh", "-alerts-1">>,
     <<"home", ":", "wazuh", "-alerts-1">>,
     <<"home", "lab", ":", "wazuh", "-alerts-1">>,
     <<"home", ":", "wazuh", "-", "lab", "-1">>,
     <<"lab", ":", "-alerts-1">>,
     <<"-alerts-1">>}

IndexEntries ==
    {JsonDict([index |-> JStr(name), health |-> JStr(<<"green">>)]) : name \in IndexNames}
    \cup {JsonDict([health |-> JStr(<<"green">>)]), JsonDict([index |-> JNull]), JNull}

IndexTenants == {NoneVal, Str(<<>>), Str(<<"lab">>), Str(<<"home">>)}

IndicesResponses ==
    {HttpResponse(200, TRUE, JArr(l)) : l \in SeqsUpTo(IndexEntries, MaxIndices)}
    \cup {HttpResponse(200, TRUE, JsonDict([error |-> JStr(<<"x">>)])),
          HttpResponse(200, TRUE, JNull),
          HttpResponse(200, FALSE, JNull),
          NetErr}
    \cup {HttpResponse(code, TRUE, JArr(<<JsonDict([index |-> JStr(<<"wazuh", "-alerts-1">>)])>>)) :
            code \in Non200}

InitIndices ==
    /\ InitCommon
    /\ json_error = "RequestException"
    /\ pc = "input"
    /\ \E cn \in IndexTenants, resp \in IndicesResponses : input = [cn |-> cn, resp |-> resp]

\* ElasticsearchConnector(es_config, cn).get_indices()
GetIndices ==
    /\ pc = "input"
    /\ output' = get_indices(input.cn, input.resp)
    /\ pc' = "applied"
    /\ UNCHANGED <<json_error, client_name, time_range, frag, url, query, attempt,
                   sleeps, posts, outcomes, ret, results, stats, net_only, input>>

SpecIndices == InitIndices /\ [][GetIndices]_vars

-----------------------------------------------------------------------------
(* Properties of get_indices, checked under SpecIndices *)

\* the response is a 200 listing of entries that each carry a name or none
Listing ==
    /\ input.resp.kind = "http"
    /\ input.resp.status_code = 200
    /\ input.resp.decodable
    /\ input.resp.body.t = "list"
    /\ \A i \in 1..Len(input.resp.body.l) :
        /\ input.resp.body.l[i].t = "dict"
        /\ Attr(input.resp.body.l[i], "index", JStr(<<>>)).t = "str"

ListedNames ==
    [i \in 1..Len(input.resp.body.l) |-> Attr(input.resp.body.l[i], "index", JStr(<<>>)).s]

\* name is tagged with tenant cn: it starts with "cn:"
TaggedWith(cn, name) ==
    /\ Len(name) > Len(cn.str)
    /\ SubSeq(name, 1, Len(cn.str) + 1) = cn.str \o <<":">>

\* the names the tenant of the connector may see
Admitted(name) ==
    /\ HasMarker(name)
    /\ Truthy(input.cn) => (TaggedWith(input.cn, name) \/ ~HasColon(name))

\* C17: get_indices filtering.  With a tenant set the result is exactly the
\* listed names that contain "wazuh" and are tagged with that tenant or have
\* no ":", so none of it is scoped to another tenant; with no tenant it is
\* every listed name containing "wazuh"; on a non-200 status or an exception
\* it is the empty list.
C17_GetIndices ==
    pc = "applied" =>
        IF Listing
            THEN /\ output = SelectSeq(ListedNames, Admitted)
                 /\ Truthy(input.cn) =>
                        \A i \in 1..Len(output) :
                            HasColon(output[i]) => TaggedWith(input.cn, output[i])
            ELSE output = <<>>

\* a tenant's connector has filtered a listing that holds an index tagged
\* with another tenant
C17_Witness ==
    /\ pc = "applied"
    /\ Listing
    /\ Truthy(input.cn)
    /\ \E i \in 1..Len(ListedNames) :
        /\ HasMarker(ListedNames[i])
        /\ HasColon(ListedNames[i])
        /\ ~TaggedWith(input.cn, ListedNames[i])

\* part of C17 the code keeps: the result is in listing order the names that
\* contain "wazuh" and, with a tenant set, contain the tenant id anywhere or
\* have no ":"; every failure gives the empty list
C17_IndicesAsCoded ==
    pc = "applied" =>
        IF Listing
            THEN output = SelectSeq(ListedNames,
                            LAMBDA name :
                                /\ HasMarker(name)
                                /\ Truthy(input.cn) =>
                                    (Contains(input.cn.str, name) \/ ~HasColon(name)))
            ELSE output = <<>>

====
